---- MODULE Spec2Model ----
(***************************************************************************)
(* MCPClientManager (lib/mcp/client-manager): the process-wide registry of *)
(* MCP server connections, its connect/disconnect lifecycle and the        *)
(* capability calls that go through it.                                    *)
(*                                                                         *)
(* Every call of an async method is a process.  A process runs without     *)
(* interruption from one `await` to the next (single-threaded event loop)  *)
(* and other processes may run while it is suspended at an `await`.        *)
(* The protocol session (SDK Client) is an imported object: what a call on *)
(* it returns is chosen by the environment.                                *)
(*                                                                         *)
(* POST /api/chat (app/api/chat/route): one chat turn that aggregates the  *)
(* tools of the connected servers with getAllTools, declares them to the   *)
(* model and runs the function-calling loop.  The model's answers and the  *)
(* remote tools' results are chosen by the environment.                    *)
(***************************************************************************)
EXTENDS Integers, Sequences, FiniteSets, TLC

\* ---------------------------------------------------------------- bounds
NumIds == 2
MaxCalls == 2
MaxBatch == 2

Ids == 1..NumIds
Procs == 1..MaxCalls

\* ------------------------------------------------------------ data types
\* MCPServerConfig: id, name, transport tag and the transport's parameters.
\* "ftp" stands for a transport tag createTransport's switch does not know;
\* url is "none" for the transports that take no URL, "bad" for a string
\* `new URL` rejects.  One config per branch and outcome of createTransport.
Transports == {"stdio", "http", "sse", "ftp"}
TransportParams ==
  {<<"stdio", "none">>, <<"http", "good">>, <<"sse", "bad">>, <<"ftp", "none">>}
Configs ==
  { [id |-> i, name |-> "srv", transport |-> t[1], url |-> t[2]] :
      i \in Ids, t \in TransportParams }

CapabilityOps ==
  {"listTools", "listPrompts", "listResources", "callTool", "getPrompt", "readResource"}

\* A thrown value: an Error object carrying a message, or something else.
ErrorObj(m) == [isError |-> TRUE, message |-> m]
NonError == [isError |-> FALSE, message |-> "raw"]
NoThrow == [isError |-> FALSE, message |-> "none"]
\* What a rejected session call (connect handshake, close, protocol call) throws.
SessionThrows == {ErrorObj("remote failure"), NonError}

\* `error instanceof Error ? error.message : 'Unknown error'`
ErrorMessage(e) == IF e.isError THEN e.message ELSE "Unknown error"

NoClient == [config |-> [id |-> 0], status |-> "none", error |-> "none"]
NoOp == [kind |-> "none", id |-> 0]
NoResult == [success |-> FALSE, error |-> "pending"]
Success == [success |-> TRUE, error |-> "none"]
Failure(m) == [success |-> FALSE, error |-> m]

\* ------------------------------------------------------------------ state
VARIABLES
  clients,   \* this.clients: the Map in insertion order, a sequence of [id, ref]
  mc,        \* the ManagedClient object created by connect call p: config, status, error
  sess,      \* the SDK Client of mc[p]: "none" | "new" | "open" | "closed"
  calls,     \* number of protocol calls (list/call/get/read) issued on the Client of mc[p]
  pc,        \* position of call p
  op,        \* the method call p runs and its argument
  held,      \* `managedClient` local of a running disconnect: the object it read
  caught,    \* the value the pending awaited call rejects with (NoThrow: it resolves)
  result,    \* the value call p resolved to
  nStarted,  \* calls made so far
  turn,      \* the locals of one POST /api/chat call and its position
  env,       \* what the remote servers expose and what the model may still request
  ui         \* MCPProvider in one browser tab: its state, localStorage and pending calls

vars == <<clients, mc, sess, calls, pc, op, held, caught, result, nStarted, turn, env, ui>>

\* The string a server id stands for.  Ids are caller-assigned strings; the
\* manager never inspects them, the chat route concatenates them into names.
IdString(i) == IF i = 1 THEN "a" ELSE IF i = 2 THEN "a__b" ELSE "s" \o ToString(i)

\* What each remote server exposes when nothing else is said: one tool on the
\* first server, none on the others.
DefaultTools == [i \in Ids |-> IF i = 1 THEN <<"c">> ELSE <<>>]
\* Two servers exposing a tool of the same name, the first one more tool.
SharedTools ==
  [i \in Ids |-> IF i = 1 THEN <<"b__c", "c">> ELSE IF i = 2 THEN <<"c">> ELSE <<>>]

\* listTools' mapping of the tools the remote server returned
ToolsOf(id) ==
  [k \in 1..Len(env.tools[id]) |-> [name |-> env.tools[id][k], description |-> ""]]
ListSuccess(ts) == [success |-> TRUE, error |-> "none", tools |-> ts]
\* callTool's success value: `result` is what the remote tool returned, which
\* tells the server and tool that ran and the arguments it ran with
CallSuccess(id, name, args) ==
  [success |-> TRUE, error |-> "none",
   result |-> [server |-> id, tool |-> name, args |-> args]]

\* ------------------------------------------------------------- Map<K, V>
Has(m, id) == \E i \in 1..Len(m) : m[i].id = id

Get(m, id) ==
  IF Has(m, id) THEN (CHOOSE i \in 1..Len(m) : m[i].id = id) ELSE 0

\* Map.get: the reference stored under id, 0 for undefined
MapGet(m, id) == IF Has(m, id) THEN m[Get(m, id)].ref ELSE 0

\* Map.set: an existing key keeps its position, a new key is appended
MapSet(m, id, r) ==
  IF Has(m, id)
  THEN [m EXCEPT ![Get(m, id)] = [id |-> id, ref |-> r]]
  ELSE Append(m, [id |-> id, ref |-> r])

\* Map.delete
MapDelete(m, id) == SelectSeq(m, LAMBDA e : e.id # id)

\* ---------------------------------------------------------- pure methods
\* a getStatus that reports an id without an entry as an error
getStatusStrict(id) ==
  IF MapGet(clients, id) = 0 THEN "error" ELSE mc[MapGet(clients, id)].status

getStatus(id) ==
  IF MapGet(clients, id) = 0 THEN "disconnected" ELSE mc[MapGet(clients, id)].status

getAllServers ==
  [i \in 1..Len(clients) |->
     [id |-> clients[i].id,
      status |-> mc[clients[i].ref].status,
      name |-> mc[clients[i].ref].config.name]]

\* createTransport: the transport object, or the value it throws
createTransport(config) ==
  CASE config.transport = "stdio" -> NoThrow
    [] config.transport \in {"http", "sse"} ->
         IF config.url = "bad" THEN ErrorObj("Invalid URL") ELSE NoThrow
    [] OTHER -> ErrorObj("Unsupported transport type: " \o config.transport)

\* --------------------------------------------------- POST /api/chat: data
maxIterations == 5

NoResponse == [functionCalls |-> <<>>, text |-> ""]
NoHttp == [status |-> 0, type |-> "none", body |-> "", toolCalls |-> <<>>]
\* `contents` before the loop: the system prompt and the caller's messages
InitialContents == <<[role |-> "user", parts |-> <<"messages">>]>>

\* The handler before it is called.
NoTurn ==
  [pc |-> "idle",
   iter |-> 0,                 \* entries of this.clients the for-of has passed
   held |-> 0,                 \* the ManagedClient whose session call is awaited
   allTools |-> <<>>,
   declarations |-> <<>>,
   toolMap |-> <<>>,
   serverNameMap |-> <<>>,
   iterations |-> 0,
   currentContents |-> <<>>,
   finalResponse |-> "",
   toolCallsInfo |-> <<>>,
   response |-> NoResponse,
   functionResponses |-> <<>>,
   idx |-> 0,                  \* position of the for-of over response.functionCalls
   http |-> NoHttp]

\* The environment of a registry that serves no chat turn.
NoChat == [tools |-> DefaultTools, budget |-> 0, genCalls |-> 0]

\* ----------------------------------------- MCPProvider (lib/mcp/context)
\* A text: what localStorage.getItem returned, or the argument of JSON.parse.
\* An array text lists its elements: an object element is the list of its
\* members, a string element is the string.
NoItem == [kind |-> "absent", items |-> <<>>]         \* getItem: null
InvalidText == [kind |-> "invalid", items |-> <<>>]   \* not JSON: JSON.parse throws
ObjectText == [kind |-> "object", items |-> <<>>]     \* `{}`
NullText == [kind |-> "null", items |-> <<>>]         \* `null`
ArrayText(items) == [kind |-> "array", items |-> items]

\* a stringify that writes a property without a value as null
StringifyConfigNulls(c) ==
  <<[key |-> "id", value |-> IdString(c.id)],
    [key |-> "name", value |-> c.name],
    [key |-> "transport", value |-> c.transport],
    [key |-> "url", value |-> IF c.url = "none" THEN "null" ELSE c.url]>>

\* JSON.stringify of a config writes a member for every property that is
\* defined ("none" stands for a property the config does not have) ...
StringifyConfig(c) ==
  SelectSeq(<<[key |-> "id", value |-> IdString(c.id)],
              [key |-> "name", value |-> c.name],
              [key |-> "transport", value |-> c.transport],
              [key |-> "url", value |-> c.url]>>,
            LAMBDA m : m.value # "none")

\* ... and reading a property of the parsed object gives the member's value,
\* undefined if the text has no such member
Member(ms, k) ==
  IF \E i \in 1..Len(ms) : ms[i].key = k
  THEN ms[CHOOSE i \in 1..Len(ms) : ms[i].key = k].value
  ELSE "none"

StringId(s) == CHOOSE i \in Ids : IdString(i) = s

ParseConfig(ms) ==
  [id |-> StringId(Member(ms, "id")),
   name |-> Member(ms, "name"),
   transport |-> Member(ms, "transport"),
   url |-> Member(ms, "url")]

\* JSON.stringify(configs) and what JSON.parse makes of an array text of configs
StringifyConfigs(configs) ==
  ArrayText([k \in 1..Len(configs) |-> StringifyConfig(configs[k])])
ParseConfigs(text) == [k \in 1..Len(text.items) |-> ParseConfig(text.items[k])]

\* JSON.stringify(connectedIds) and JSON.parse(savedConnected)
StringifyIds(ids) == ArrayText([k \in 1..Len(ids) |-> IdString(ids[k])])
ParseIds(text) == [k \in 1..Len(text.items) |-> StringId(text.items[k])]

\* initializeServers before it runs
NoLoad ==
  [pc |-> "idle",
   configs |-> <<>>,
   previouslyConnected |-> <<>>,
   serverConnectedIds |-> {},
   synced |-> FALSE,      \* the status query was answered
   k |-> 0,               \* position of the for-of over configs
   req |-> 0]             \* the connect request reconnectServer awaits

\* The provider when it is mounted for the first time in a browser.
NoMirror ==
  [servers |-> <<>>,                                   \* useState<MCPServerState[]>([])
   items |-> [servers |-> NoItem, connected |-> NoItem],   \* localStorage
   load |-> NoLoad,
   waiting |-> {},        \* connectServer/disconnectServer calls awaiting their fetch
   file |-> NoItem,       \* what exportConfig returned last
   returned |-> "none"]   \* what the last call of a mirror method returned

\* ------------------------------------------------------------------ Init
Init ==
  /\ clients = <<>>
  /\ mc = [p \in Procs |-> NoClient]
  /\ sess = [p \in Procs |-> "none"]
  /\ calls = [p \in Procs |-> 0]
  /\ pc = [p \in Procs |-> "idle"]
  /\ op = [p \in Procs |-> NoOp]
  /\ held = [p \in Procs |-> 0]
  /\ caught = [p \in Procs |-> NoThrow]
  /\ result = [p \in Procs |-> NoResult]
  /\ nStarted = 0
  /\ turn = NoTurn
  /\ env = NoChat
  /\ ui = NoMirror

\* Server ids are opaque strings the manager never inspects: the ids are
\* numbered in the order the calls first name them.
InOrder(id) == \A j \in Ids : j < id => \E q \in DOMAIN op : op[q].id = j

\* A new call is made: calls are numbered in the order they are made.
Starts(p, id) == pc[p] = "idle" /\ p = nStarted + 1 /\ InOrder(id)

\* ------------------------------------------------------- session (Client)
\* client.close(), called on the Client of mc[r] by call p.  The SDK closes the
\* transport if one is attached; without a transport close() does nothing.
\* A close that throws may or may not have released the transport.
SessionClose(p, r) ==
  \/ /\ sess[r] = "open"
     /\ \/ /\ sess' = [sess EXCEPT ![r] = "closed"]
           /\ caught' = [caught EXCEPT ![p] = NoThrow]
        \/ \E e \in SessionThrows, s \in {"open", "closed"} :
             /\ sess' = [sess EXCEPT ![r] = s]
             /\ caught' = [caught EXCEPT ![p] = e]
  \/ /\ sess[r] # "open"
     /\ sess' = sess
     /\ caught' = [caught EXCEPT ![p] = NoThrow]

\* ------------------------------------------------------------- disconnect
\* disconnect up to `await managedClient.client.close()`, run by call p
\* (directly, or from connect); `wait` is where p is suspended.
DisconnectBegin(p, id, wait) ==
  /\ held' = [held EXCEPT ![p] = MapGet(clients, id)]
  /\ SessionClose(p, MapGet(clients, id))
  /\ pc' = [pc EXCEPT ![p] = wait]

\* disconnect after the await: delete the entry unless close() threw
DisconnectEnd(p, id) ==
  IF caught[p] = NoThrow
  THEN /\ clients' = MapDelete(clients, id)
       /\ result' = [result EXCEPT ![p] = Success]
  ELSE /\ clients' = clients
       /\ result' = [result EXCEPT ![p] = Failure(ErrorMessage(caught[p]))]

\* a disconnect that reports success for an id it does not know
DisconnectNotFoundSilent(p) ==
  /\ result' = [result EXCEPT ![p] = Success]
  /\ pc' = [pc EXCEPT ![p] = "done"]
  /\ UNCHANGED <<clients, mc, sess, calls, held, caught>>

\* `return { success: false, error: 'Server not found' }`
DisconnectNotFound(p) ==
  /\ result' = [result EXCEPT ![p] = Failure("Server not found")]
  /\ pc' = [pc EXCEPT ![p] = "done"]
  /\ UNCHANGED <<clients, mc, sess, calls, held, caught>>

DisconnectCall(p, id) ==
  /\ Starts(p, id)
  /\ nStarted' = p
  /\ op' = [op EXCEPT ![p] = [kind |-> "disconnect", id |-> id]]
  /\ IF MapGet(clients, id) = 0
     THEN DisconnectNotFound(p)
     ELSE /\ DisconnectBegin(p, id, "d_close")
          /\ UNCHANGED <<clients, mc, calls, result>>

DisconnectClosed(p) ==
  /\ pc[p] = "d_close"
  /\ DisconnectEnd(p, op[p].id)
  /\ pc' = [pc EXCEPT ![p] = "done"]
  /\ caught' = [caught EXCEPT ![p] = NoThrow]
  /\ UNCHANGED <<mc, sess, calls, op, held, nStarted>>

\* ---------------------------------------------------------------- connect
\* lines 49-61: create the ManagedClient, register it, call createTransport
ConnectRegister(p, config) ==
  /\ mc' = [mc EXCEPT ![p] = [config |-> config, status |-> "connecting", error |-> "none"]]
  /\ sess' = [sess EXCEPT ![p] = "new"]
  /\ clients' = MapSet(clients, config.id, p)
  /\ caught' = [caught EXCEPT ![p] = createTransport(config)]
  /\ pc' = [pc EXCEPT ![p] = "c_transport"]

ConnectCall(p, config) ==
  /\ Starts(p, config.id)
  /\ nStarted' = p
  /\ op' = [op EXCEPT ![p] = [kind |-> "connect", id |-> config.id, config |-> config]]
  /\ IF Has(clients, config.id)
     THEN /\ DisconnectBegin(p, config.id, "c_close")
          /\ UNCHANGED <<clients, mc, calls, result>>
     ELSE /\ ConnectRegister(p, config)
          /\ UNCHANGED <<calls, held, result>>

\* the disconnect called by connect resumes after close() and returns
ConnectDisconnected(p) ==
  /\ pc[p] = "c_close"
  /\ DisconnectEnd(p, op[p].id)
  /\ pc' = [pc EXCEPT ![p] = "c_register"]
  /\ caught' = [caught EXCEPT ![p] = NoThrow]
  /\ UNCHANGED <<mc, sess, calls, op, held, nStarted>>

\* connect resumes after `await this.disconnect(config.id)`; the result is dropped
ConnectResume(p) ==
  /\ pc[p] = "c_register"
  /\ ConnectRegister(p, op[p].config)
  /\ result' = [result EXCEPT ![p] = NoResult]
  /\ UNCHANGED <<calls, op, held, nStarted>>

\* a success path that leaves out `managedClient.status = 'connected'`
ConnectSucceedNoStatus(p) ==
  /\ mc' = mc
  /\ clients' = MapSet(clients, op[p].id, p)
  /\ result' = [result EXCEPT ![p] = Success]
  /\ pc' = [pc EXCEPT ![p] = "done"]

\* lines 64-68
ConnectSucceed(p) ==
  /\ mc' = [mc EXCEPT ![p].status = "connected"]
  /\ clients' = MapSet(clients, op[p].id, p)
  /\ result' = [result EXCEPT ![p] = Success]
  /\ pc' = [pc EXCEPT ![p] = "done"]

\* a catch block that leaves out `managedClient.error = errorMessage`
ConnectFailNoMessage(p, e) ==
  /\ mc' = [mc EXCEPT ![p].status = "error"]
  /\ clients' = MapSet(clients, op[p].id, p)
  /\ result' = [result EXCEPT ![p] = Failure(ErrorMessage(e))]
  /\ pc' = [pc EXCEPT ![p] = "done"]

\* a catch block that drops the entry of the failed connect
ConnectFailRemoves(p, e) ==
  /\ mc' = [mc EXCEPT ![p].status = "error", ![p].error = ErrorMessage(e)]
  /\ clients' = MapDelete(clients, op[p].id)
  /\ result' = [result EXCEPT ![p] = Failure(ErrorMessage(e))]
  /\ pc' = [pc EXCEPT ![p] = "done"]

\* a catch block that records the message and leaves the status as it is
ConnectFailKeepsStatus(p, e) ==
  /\ mc' = [mc EXCEPT ![p].error = ErrorMessage(e)]
  /\ clients' = MapSet(clients, op[p].id, p)
  /\ result' = [result EXCEPT ![p] = Failure(ErrorMessage(e))]
  /\ pc' = [pc EXCEPT ![p] = "done"]

\* lines 69-77: the catch block, e the value caught
ConnectFail(p, e) ==
  /\ mc' = [mc EXCEPT ![p].status = "error", ![p].error = ErrorMessage(e)]
  /\ clients' = MapSet(clients, op[p].id, p)
  /\ result' = [result EXCEPT ![p] = Failure(ErrorMessage(e))]
  /\ pc' = [pc EXCEPT ![p] = "done"]

\* a connect that goes on only when no connect for another id is pending
ConnectTransportExclusive(p) ==
  /\ pc[p] = "c_transport"
  /\ \A q \in DOMAIN pc : pc[q] \in {"c_transport", "c_handshake"} => op[q].id = op[p].id
  /\ IF caught[p] # NoThrow
     THEN /\ ConnectFail(p, caught[p])
          /\ UNCHANGED <<sess, caught>>
     ELSE /\ sess' = [sess EXCEPT ![p] = "open"]
          /\ pc' = [pc EXCEPT ![p] = "c_handshake"]
          /\ UNCHANGED <<clients, mc, result, caught>>
  /\ UNCHANGED <<calls, op, held, nStarted>>

\* connect resumes after `await this.createTransport(config)`: the catch block
\* if it threw, else client.connect(transport) starts the transport
ConnectTransport(p) ==
  /\ pc[p] = "c_transport"
  /\ IF caught[p] # NoThrow
     THEN /\ ConnectFail(p, caught[p])
          /\ UNCHANGED <<sess, caught>>
     ELSE /\ sess' = [sess EXCEPT ![p] = "open"]
          /\ pc' = [pc EXCEPT ![p] = "c_handshake"]
          /\ UNCHANGED <<clients, mc, result, caught>>
  /\ UNCHANGED <<calls, op, held, nStarted>>

\* `await managedClient.client.connect(transport)` resolves: the server answered
\* the handshake and the transport is still open
ConnectHandshakeOk(p) ==
  /\ pc[p] = "c_handshake"
  /\ sess[p] = "open"
  /\ ConnectSucceed(p)
  /\ caught' = [caught EXCEPT ![p] = NoThrow]
  /\ UNCHANGED <<sess, calls, op, held, nStarted>>

\* ... or rejects (transport start or handshake failed, or the Client was closed
\* meanwhile); the SDK closes the transport of a failed connect
ConnectHandshakeFail(p, e) ==
  /\ pc[p] = "c_handshake"
  /\ sess' = [sess EXCEPT ![p] = "closed"]
  /\ caught' = [caught EXCEPT ![p] = e]
  /\ ConnectFail(p, e)
  /\ UNCHANGED <<calls, op, held, nStarted>>

\* ------------------------------------------------------- capability calls
\* a guard that only checks `!managedClient`
NotConnectedAbsentOnly(id) == MapGet(clients, id) = 0

\* `!managedClient || managedClient.status !== 'connected'`
NotConnected(id) ==
  MapGet(clients, id) = 0 \/ mc[MapGet(clients, id)].status # "connected"

\* listTools, listPrompts, listResources, callTool, getPrompt, readResource
\* up to the await of the session call
CapabilityCall(p, kind, id) ==
  /\ Starts(p, id)
  /\ nStarted' = p
  /\ op' = [op EXCEPT ![p] = [kind |-> kind, id |-> id]]
  /\ IF NotConnected(id)
     THEN /\ result' = [result EXCEPT ![p] = Failure("Server not connected")]
          /\ pc' = [pc EXCEPT ![p] = "done"]
          /\ UNCHANGED <<calls, held>>
     ELSE /\ held' = [held EXCEPT ![p] = MapGet(clients, id)]
          /\ calls' = [calls EXCEPT ![MapGet(clients, id)] = @ + 1]
          /\ pc' = [pc EXCEPT ![p] = "cap_wait"]
          /\ UNCHANGED result
  /\ UNCHANGED <<clients, mc, sess, caught>>

\* the session call resolves (the transport is open) ...
CapabilityOk(p) ==
  /\ pc[p] = "cap_wait"
  /\ sess[held[p]] = "open"
  /\ result' = [result EXCEPT ![p] =
                  IF op[p].kind = "listTools"
                  THEN ListSuccess(ToolsOf(mc[held[p]].config.id))
                  ELSE Success]
  /\ pc' = [pc EXCEPT ![p] = "done"]
  /\ UNCHANGED <<clients, mc, sess, calls, op, held, caught, nStarted>>

\* ... or rejects
CapabilityFail(p, e) ==
  /\ pc[p] = "cap_wait"
  /\ result' = [result EXCEPT ![p] = Failure(ErrorMessage(e))]
  /\ pc' = [pc EXCEPT ![p] = "done"]
  /\ UNCHANGED <<clients, mc, sess, calls, op, held, caught, nStarted>>

\* ------------------------------------------------------------------ Next
Next ==
  \/ \E p \in Procs, c \in Configs : ConnectCall(p, c) /\ UNCHANGED <<turn, env, ui>>
  \/ \E p \in Procs : ConnectDisconnected(p) /\ UNCHANGED <<turn, env, ui>>
  \/ \E p \in Procs : ConnectResume(p) /\ UNCHANGED <<turn, env, ui>>
  \/ \E p \in Procs : ConnectTransport(p) /\ UNCHANGED <<turn, env, ui>>
  \/ \E p \in Procs : ConnectHandshakeOk(p) /\ UNCHANGED <<turn, env, ui>>
  \/ \E p \in Procs, e \in SessionThrows : ConnectHandshakeFail(p, e) /\ UNCHANGED <<turn, env, ui>>
  \/ \E p \in Procs, id \in Ids : DisconnectCall(p, id) /\ UNCHANGED <<turn, env, ui>>
  \/ \E p \in Procs : DisconnectClosed(p) /\ UNCHANGED <<turn, env, ui>>
  \/ \E p \in Procs, k \in CapabilityOps, id \in Ids : CapabilityCall(p, k, id) /\ UNCHANGED <<turn, env, ui>>
  \/ \E p \in Procs : CapabilityOk(p) /\ UNCHANGED <<turn, env, ui>>
  \/ \E p \in Procs, e \in SessionThrows : CapabilityFail(p, e) /\ UNCHANGED <<turn, env, ui>>

Spec == Init /\ [][Next]_vars

\* Sequential use: a call is made only when every earlier call has settled.
Settled == \A p \in Procs : pc[p] \in {"idle", "done"}
NextSeq ==
  \/ \E p \in Procs, c \in Configs : Settled /\ ConnectCall(p, c) /\ UNCHANGED <<turn, env, ui>>
  \/ \E p \in Procs : ConnectDisconnected(p) /\ UNCHANGED <<turn, env, ui>>
  \/ \E p \in Procs : ConnectResume(p) /\ UNCHANGED <<turn, env, ui>>
  \/ \E p \in Procs : ConnectTransport(p) /\ UNCHANGED <<turn, env, ui>>
  \/ \E p \in Procs : ConnectHandshakeOk(p) /\ UNCHANGED <<turn, env, ui>>
  \/ \E p \in Procs, e \in SessionThrows : ConnectHandshakeFail(p, e) /\ UNCHANGED <<turn, env, ui>>
  \/ \E p \in Procs, id \in Ids : Settled /\ DisconnectCall(p, id) /\ UNCHANGED <<turn, env, ui>>
  \/ \E p \in Procs : DisconnectClosed(p) /\ UNCHANGED <<turn, env, ui>>
  \/ \E p \in Procs, k \in CapabilityOps, id \in Ids : Settled /\ CapabilityCall(p, k, id) /\ UNCHANGED <<turn, env, ui>>
  \/ \E p \in Procs : CapabilityOk(p) /\ UNCHANGED <<turn, env, ui>>
  \/ \E p \in Procs, e \in SessionThrows : CapabilityFail(p, e) /\ UNCHANGED <<turn, env, ui>>
SpecSeq == Init /\ [][NextSeq]_vars

\* The event loop runs every continuation that is ready; nothing makes a
\* remote server answer the transport connect or the handshake.
Fairness ==
  \A p \in Procs :
    /\ WF_vars(ConnectDisconnected(p) /\ UNCHANGED <<turn, env, ui>>)
    /\ WF_vars(ConnectResume(p) /\ UNCHANGED <<turn, env, ui>>)
    /\ WF_vars(ConnectTransport(p) /\ UNCHANGED <<turn, env, ui>>)
    /\ WF_vars(DisconnectClosed(p) /\ UNCHANGED <<turn, env, ui>>)
SpecFair == Spec /\ Fairness

\* ------------------------------------------- POST /api/chat: pure helpers
\* `${serverId}__${tool.name}`
FunctionName(serverId, toolName) == IdString(serverId) \o "__" \o toolName

convertMCPToolToFunctionDeclaration(tool, serverId, serverName) ==
  [name |-> FunctionName(serverId, tool.name),
   description |-> "[" \o serverName \o "] " \o
                   (IF tool.description # "" THEN tool.description ELSE tool.name)]

\* the two nested for-of loops of getMCPFunctionDeclarations, in visit order
RECURSIVE Flatten(_)
Flatten(all) ==
  IF all = <<>> THEN <<>>
  ELSE [k \in 1..Len(Head(all).tools) |->
          [serverId |-> Head(all).serverId,
           serverName |-> Head(all).serverName,
           tool |-> Head(all).tools[k]]] \o Flatten(Tail(all))

Declarations(all) ==
  [k \in 1..Len(Flatten(all)) |->
     convertMCPToolToFunctionDeclaration(
       Flatten(all)[k].tool, Flatten(all)[k].serverId, Flatten(all)[k].serverName)]

\* `toolMap[declaration.name] = { serverId, toolName: tool.name }`: an
\* assignment to a property replaces what an earlier one stored, so a name
\* resolves to the last declaration that carries it
LastDeclared(f, n) ==
  CHOOSE k \in 1..Len(f) :
    /\ FunctionName(f[k].serverId, f[k].tool.name) = n
    /\ \A j \in 1..Len(f) : FunctionName(f[j].serverId, f[j].tool.name) = n => j <= k

ToolMap(all) ==
  LET f == Flatten(all)
  IN [n \in {FunctionName(f[k].serverId, f[k].tool.name) : k \in 1..Len(f)} |->
        [serverId |-> f[LastDeclared(f, n)].serverId,
         toolName |-> f[LastDeclared(f, n)].tool.name]]

\* `serverNameMap[serverId] = serverName`, the last record of a server wins
LastListed(all, i) ==
  CHOOSE k \in 1..Len(all) :
    all[k].serverId = i /\ \A j \in 1..Len(all) : all[j].serverId = i => j <= k

ServerNameMap(all) ==
  [i \in {all[k].serverId : k \in 1..Len(all)} |-> all[LastListed(all, i)].serverName]

\* `serverNameMap[toolInfo.serverId] || toolInfo.serverId`
ServerNameOf(t, serverId) ==
  IF serverId \in DOMAIN t.serverNameMap /\ t.serverNameMap[serverId] # ""
  THEN t.serverNameMap[serverId]
  ELSE IdString(serverId)

JSONstringify(v) == <<"json", v>>
ToolError(m) == [error |-> m]

\* lines 331-334: the catch around the whole handler
InternalError == [status |-> 500, type |-> "text", body |-> "Internal Server Error", toolCalls |-> <<>>]
Failed(t) == [t EXCEPT !.pc = "done", !.http = InternalError]

\* a return that fails the turn when the loop left no final text
RespondNeedsText(t) ==
  IF t.finalResponse = "" THEN Failed(t)
  ELSE [t EXCEPT !.pc = "done",
                 !.http = [status |-> 200, type |-> "json",
                           body |-> t.finalResponse, toolCalls |-> t.toolCallsInfo]]

\* the return at the end of the function-calling branch
Respond(t) ==
  [t EXCEPT !.pc = "done",
            !.http = IF Len(t.toolCallsInfo) > 0
                     THEN [status |-> 200, type |-> "json",
                           body |-> t.finalResponse, toolCalls |-> t.toolCallsInfo]
                     ELSE [status |-> 200, type |-> "text",
                           body |-> t.finalResponse, toolCalls |-> <<>>]]

\* a loop condition that lets one round too many through
StartRoundOneMore(t) ==
  IF t.iterations <= maxIterations
  THEN [t EXCEPT !.iterations = @ + 1, !.pc = "gen_wait"]
  ELSE Respond(t)

\* `while (iterations < maxIterations) { iterations++; ... generateContent`
StartRound(t) ==
  IF t.iterations < maxIterations
  THEN [t EXCEPT !.iterations = @ + 1, !.pc = "gen_wait"]
  ELSE Respond(t)

\* an append that puts the function responses before the model's calls
EndRoundResponsesFirst(t) ==
  StartRound(
    [t EXCEPT !.currentContents =
       @ \o <<[role |-> "user", parts |-> t.functionResponses],
              [role |-> "model",
               parts |-> [k \in 1..Len(t.response.functionCalls) |->
                            [functionCall |-> t.response.functionCalls[k]]]]>>,
       !.response = NoResponse,
       !.functionResponses = <<>>,
       !.idx = 0])

\* lines 249-265: the model message and the function responses are appended
EndRound(t) ==
  StartRound(
    [t EXCEPT !.currentContents =
       @ \o <<[role |-> "model",
               parts |-> [k \in 1..Len(t.response.functionCalls) |->
                            [functionCall |-> t.response.functionCalls[k]]]],
              [role |-> "user", parts |-> t.functionResponses]>>,
       \* `response` and `functionResponses` are locals of the loop body
       !.response = NoResponse,
       !.functionResponses = <<>>,
       !.idx = 0])

\* a loop body that gives the model no function response for a name it cannot resolve
AfterCallSilent(t, r) ==
  LET call == t.response.functionCalls[t.idx]
  IN IF call.name \in DOMAIN t.toolMap
     THEN [t EXCEPT
        !.toolCallsInfo =
           Append(@, [serverName |-> ServerNameOf(t, t.toolMap[call.name].serverId),
                      toolName |-> t.toolMap[call.name].toolName,
                      arguments |-> call.args,
                      result |-> r]),
        !.functionResponses =
           Append(@, [functionResponse |->
                        [name |-> call.name, response |-> [result |-> JSONstringify(r)]]]),
        !.idx = @ + 1]
     ELSE [t EXCEPT !.idx = @ + 1]

\* lines 229-246: what the loop body does with the result of the current call
AfterCall(t, r) ==
  LET call == t.response.functionCalls[t.idx]
  IN [t EXCEPT
        !.toolCallsInfo =
           IF call.name \in DOMAIN t.toolMap
           THEN Append(@, [serverName |-> ServerNameOf(t, t.toolMap[call.name].serverId),
                           toolName |-> t.toolMap[call.name].toolName,
                           arguments |-> call.args,
                           result |-> r])
           ELSE @,
        !.functionResponses =
           Append(@, [functionResponse |->
                        [name |-> call.name, response |-> [result |-> JSONstringify(r)]]]),
        !.idx = @ + 1]

\* The for-of over response.functionCalls from the current call on, up to the
\* next session call it has to wait for: executeMCPToolCall answers an unknown
\* name itself, callTool answers for a server that is not connected.
RECURSIVE RunCalls(_)
\* a loop that gives the turn up when the server of a call is not connected
RunCallsAborting(t) ==
  IF t.idx > Len(t.response.functionCalls) THEN EndRound(t)
  ELSE LET call == t.response.functionCalls[t.idx]
       IN IF call.name \notin DOMAIN t.toolMap
          THEN RunCalls(AfterCall(t, ToolError("Unknown tool: " \o call.name)))
          ELSE IF NotConnected(t.toolMap[call.name].serverId)
               THEN Failed(t)
               ELSE [t EXCEPT !.pc = "tool_wait",
                              !.held = MapGet(clients, t.toolMap[call.name].serverId)]

RunCalls(t) ==
  IF t.idx > Len(t.response.functionCalls) THEN EndRound(t)
  ELSE LET call == t.response.functionCalls[t.idx]
       IN IF call.name \notin DOMAIN t.toolMap
          THEN RunCalls(AfterCall(t, ToolError("Unknown tool: " \o call.name)))
          ELSE IF NotConnected(t.toolMap[call.name].serverId)
               THEN RunCalls(AfterCall(t, ToolError("Server not connected")))
               ELSE [t EXCEPT !.pc = "tool_wait",
                              !.held = MapGet(clients, t.toolMap[call.name].serverId)]

\* ------------------------------------------------------------ getAllTools
\* position of the first entry after position k whose status is connected
NextConnected(k) ==
  IF \E i \in (k + 1)..Len(clients) : mc[clients[i].ref].status = "connected"
  THEN CHOOSE i \in (k + 1)..Len(clients) :
         /\ mc[clients[i].ref].status = "connected"
         /\ \A j \in (k + 1)..(i - 1) : mc[clients[j].ref].status # "connected"
  ELSE 0

\* getMCPFunctionDeclarations after its getAllTools returned
Declared(t) ==
  [t EXCEPT !.declarations = Declarations(t.allTools),
            !.toolMap = ToolMap(t.allTools),
            !.pc = "declared"]

\* lines 188-194: the server-name map, then the loop is entered
Named(t) == StartRound([t EXCEPT !.serverNameMap = ServerNameMap(t.allTools)])

\* the for-of over this.clients.entries() from position t.iter on: up to the
\* listTools call of the next connected entry, or to `return allTools` and
\* what the caller of getAllTools does with the list
Visit(t, wait) ==
  IF NextConnected(t.iter) # 0
  THEN [t EXCEPT !.iter = NextConnected(t.iter),
                 !.held = clients[NextConnected(t.iter)].ref,
                 !.pc = wait]
  ELSE IF wait = "agg1_wait" THEN Declared(t) ELSE Named(t)

Continue(t) == Visit(t, t.pc)

\* a push that drops what the servers listed before had contributed
PushedAlone(t) ==
  [t EXCEPT !.allTools =
     <<[serverId |-> mc[t.held].config.id,
        serverName |-> mc[t.held].config.name,
        tools |-> ToolsOf(mc[t.held].config.id)]>>]

\* `allTools.push({ serverId, serverName: managedClient.config.name, tools })`
Pushed(t) ==
  [t EXCEPT !.allTools =
     Append(@, [serverId |-> mc[t.held].config.id,
                serverName |-> mc[t.held].config.name,
                tools |-> ToolsOf(mc[t.held].config.id)])]

\* ------------------------------------------- what a step does to the rest
SessionWaits == {"agg1_wait", "agg2_wait", "tool_wait"}

\* A step that ends at a session wait has issued one call on that session;
\* a step that enters a round has called generateContent once.
Effects(requested) ==
  /\ calls' = IF turn'.pc \in SessionWaits
              THEN [calls EXCEPT ![turn'.held] = @ + 1]
              ELSE calls
  /\ env' = [env EXCEPT
       !.genCalls = IF turn'.iterations # turn.iterations THEN @ + 1 ELSE @,
       !.budget = @ - requested]
  /\ UNCHANGED <<clients, mc, sess, pc, op, held, caught, result, nStarted, ui>>

\* ------------------------------------------------------- POST: the steps

\* What the model may ask for: a declared function or a name nobody declared.
ArgValues == {"x"}
RequestNames(t) == DOMAIN t.toolMap \cup {"nope"}
Batches(t, n) ==
  UNION {[1..k -> [name : RequestNames(t), args : ArgValues]] : k \in 0..n}
Texts == {"", "answer"}

\* lines 113-121: the request body is read, the key is checked and
\* getMCPFunctionDeclarations calls getAllTools
ChatStart(input) ==
  /\ turn.pc = "idle"
  /\ turn' = CASE input = "bad_json" -> Failed(turn)
               [] input = "no_key" ->
                    [turn EXCEPT !.pc = "done",
                                 !.http = [status |-> 500, type |-> "text",
                                           body |-> "GEMINI_API_KEY is not set",
                                           toolCalls |-> <<>>]]
               [] OTHER -> Visit(turn, "agg1_wait")
  /\ Effects(0)

\* the awaited listTools of getAllTools resolves with the server's tools ...
ChatListOk ==
  /\ turn.pc \in {"agg1_wait", "agg2_wait"}
  /\ sess[turn.held] = "open"
  /\ turn' = Continue(Pushed(turn))
  /\ Effects(0)

\* ... or the session call rejects: listTools returns a failure, no push
ChatListFail(e) ==
  /\ turn.pc \in {"agg1_wait", "agg2_wait"}
  /\ turn' = Continue(turn)
  /\ Effects(0)

\* lines 122-192: hasMCPTools decides the branch; the function-calling branch
\* calls getAllTools again, the other one generateContentStream
ChatPrepare ==
  /\ turn.pc = "declared"
  /\ turn' = IF Len(turn.declarations) > 0
             THEN Visit([turn EXCEPT !.currentContents = InitialContents,
                                     !.allTools = <<>>,
                                     !.iter = 0],
                        "agg2_wait")
             ELSE [turn EXCEPT !.pc = "stream_wait"]
  /\ Effects(0)

\* generateContent resolves with function calls and text
ChatGenerate(fc, text) ==
  /\ turn.pc = "gen_wait"
  /\ Len(fc) <= env.budget
  /\ turn' = IF Len(fc) > 0
             THEN RunCalls([turn EXCEPT !.response = [functionCalls |-> fc, text |-> text],
                                        !.functionResponses = <<>>,
                                        !.idx = 1])
             ELSE Respond([turn EXCEPT !.response = [functionCalls |-> fc, text |-> text],
                                       !.finalResponse = text])
  /\ Effects(Len(fc))

\* generateContent or generateContentStream rejects: the outer catch
ChatGenerateFail ==
  /\ turn.pc \in {"gen_wait", "stream_wait"}
  /\ turn' = Failed(turn)
  /\ Effects(0)

\* generateContentStream resolves: the chunks are piped into the response
ChatStream ==
  /\ turn.pc = "stream_wait"
  /\ turn' = [turn EXCEPT !.pc = "done",
                          !.http = [status |-> 200, type |-> "stream",
                                    body |-> "chunks", toolCalls |-> <<>>]]
  /\ Effects(0)

\* the awaited callTool resolves with the tool's result ...
ChatToolOk ==
  /\ turn.pc = "tool_wait"
  /\ sess[turn.held] = "open"
  /\ turn' = RunCalls(AfterCall(turn,
               CallSuccess(mc[turn.held].config.id,
                           turn.toolMap[turn.response.functionCalls[turn.idx].name].toolName,
                           turn.response.functionCalls[turn.idx].args).result))
  /\ Effects(0)

\* What a rejected tools/call request throws: the SDK rejects a request with
\* an Error (McpError) carrying the remote message.
CallThrows == {ErrorObj("remote failure")}

\* ... or the session call rejects: callTool returns a failure
ChatToolFail(e) ==
  /\ turn.pc = "tool_wait"
  /\ turn' = RunCalls(AfterCall(turn, ToolError(Failure(ErrorMessage(e)).error)))
  /\ Effects(0)

\* A registry call running beside the turn: Map iteration is live, so an
\* entry deleted at or before the iterator's position moves the position.
Beside(A) ==
  /\ A
  /\ turn' = IF turn.pc \in {"agg1_wait", "agg2_wait"}
                /\ \E k \in 1..turn.iter : ~Has(clients', clients[k].id)
             THEN [turn EXCEPT !.iter = @ - 1]
             ELSE turn
  /\ env' = env
  /\ ui' = ui

\* ------------------------------------------------- POST: specifications
\* The registry a turn finds: one connect call per id has been made, one after
\* another; those of the ids in ok succeeded (stdio), the others failed in
\* createTransport (an SSE config whose URL does not parse).
ChatCalls == 1..(NumIds + 1)
GoodConfig(i) == [id |-> i, name |-> "srv", transport |-> "stdio", url |-> "none"]
BadConfig(i) == [id |-> i, name |-> "srv", transport |-> "sse", url |-> "bad"]
RegistryOf(P, ok) ==
  /\ clients = [i \in Ids |-> [id |-> i, ref |-> i]]
  /\ mc = [p \in P |->
             IF p \in ok THEN [config |-> GoodConfig(p), status |-> "connected", error |-> "none"]
             ELSE IF p \in Ids
                  THEN [config |-> BadConfig(p), status |-> "error", error |-> "Invalid URL"]
                  ELSE NoClient]
  /\ sess = [p \in P |-> IF p \in ok THEN "open" ELSE IF p \in Ids THEN "new" ELSE "none"]
  /\ calls = [p \in P |-> 0]
  /\ pc = [p \in P |-> IF p \in Ids THEN "done" ELSE "idle"]
  /\ op = [p \in P |->
             IF p \in ok THEN [kind |-> "connect", id |-> p, config |-> GoodConfig(p)]
             ELSE IF p \in Ids THEN [kind |-> "connect", id |-> p, config |-> BadConfig(p)]
                  ELSE NoOp]
  /\ held = [p \in P |-> 0]
  /\ caught = [p \in P |->
                 IF p \in Ids \ ok THEN ErrorObj("Invalid URL") ELSE NoThrow]
  /\ result = [p \in P |->
                 IF p \in ok THEN Success
                 ELSE IF p \in Ids THEN Failure("Invalid URL") ELSE NoResult]
  /\ nStarted = NumIds

Registry(ok) == RegistryOf(ChatCalls, ok)

\* One turn against a registry nobody else changes; the model may request one
\* function call for every round of the loop, up to MaxBatch in one response.
InitChat ==
  /\ \E ok \in SUBSET Ids : Registry(ok)
  /\ turn = NoTurn
  /\ env = [tools |-> DefaultTools, budget |-> maxIterations, genCalls |-> 0]
  /\ ui = NoMirror

NextChat ==
  \/ \E input \in {"bad_json", "no_key", "ok"} : ChatStart(input)
  \/ ChatListOk
  \/ \E e \in CallThrows : ChatListFail(e)
  \/ ChatPrepare
  \/ \E fc \in Batches(turn, MaxBatch), text \in Texts : ChatGenerate(fc, text)
  \/ ChatGenerateFail
  \/ ChatStream
  \/ ChatToolOk
  \/ \E e \in CallThrows : ChatToolFail(e)
SpecChat == InitChat /\ [][NextChat]_vars

\* One turn while a disconnect call runs beside it; the model may request
\* one batch of function calls.
InitLive ==
  /\ \E ok \in SUBSET Ids : Registry(ok)
  /\ turn = NoTurn
  /\ \E ts \in {DefaultTools, SharedTools} :
       env = [tools |-> ts, budget |-> MaxBatch, genCalls |-> 0]
  /\ ui = NoMirror

NextLive ==
  \/ \E input \in {"bad_json", "no_key", "ok"} : ChatStart(input)
  \/ ChatListOk
  \/ ChatPrepare
  \/ \E fc \in Batches(turn, MaxBatch), text \in Texts : ChatGenerate(fc, text)
  \/ ChatGenerateFail
  \/ ChatStream
  \/ ChatToolOk
  \/ \E e \in CallThrows : ChatToolFail(e)
  \/ \E p \in ChatCalls, id \in Ids : Beside(DisconnectCall(p, id))
  \/ \E p \in ChatCalls : Beside(DisconnectClosed(p))
SpecLive == InitLive /\ [][NextLive]_vars

\* ------------------------------------------- one server exposing no tools
\* The calls of the scenario: connect, listTools, disconnect and one more.
ScenarioCalls == 1..(MaxCalls + 1)
\* stdio server `echo hello`
EchoConfig == [id |-> 1, name |-> "srv", transport |-> "stdio", url |-> "none"]

InitEcho ==
  /\ clients = <<>>
  /\ mc = [p \in ScenarioCalls |-> NoClient]
  /\ sess = [p \in ScenarioCalls |-> "none"]
  /\ calls = [p \in ScenarioCalls |-> 0]
  /\ pc = [p \in ScenarioCalls |-> "idle"]
  /\ op = [p \in ScenarioCalls |-> NoOp]
  /\ held = [p \in ScenarioCalls |-> 0]
  /\ caught = [p \in ScenarioCalls |-> NoThrow]
  /\ result = [p \in ScenarioCalls |-> NoResult]
  /\ nStarted = 0
  /\ turn = NoTurn
  /\ env = [tools |-> [i \in Ids |-> <<>>], budget |-> 0, genCalls |-> 0]
  /\ ui = NoMirror

\* Calls on the one server, each made when the one before has settled; the
\* server answers every protocol request it receives.
SettledEcho == \A p \in ScenarioCalls : pc[p] \in {"idle", "done"}
NextEcho ==
  \/ \E p \in ScenarioCalls : SettledEcho /\ ConnectCall(p, EchoConfig) /\ UNCHANGED <<turn, env, ui>>
  \/ \E p \in ScenarioCalls : ConnectDisconnected(p) /\ UNCHANGED <<turn, env, ui>>
  \/ \E p \in ScenarioCalls : ConnectResume(p) /\ UNCHANGED <<turn, env, ui>>
  \/ \E p \in ScenarioCalls : ConnectTransport(p) /\ UNCHANGED <<turn, env, ui>>
  \/ \E p \in ScenarioCalls : ConnectHandshakeOk(p) /\ UNCHANGED <<turn, env, ui>>
  \/ \E p \in ScenarioCalls, e \in SessionThrows : ConnectHandshakeFail(p, e) /\ UNCHANGED <<turn, env, ui>>
  \/ \E p \in ScenarioCalls : SettledEcho /\ DisconnectCall(p, EchoConfig.id) /\ UNCHANGED <<turn, env, ui>>
  \/ \E p \in ScenarioCalls : DisconnectClosed(p) /\ UNCHANGED <<turn, env, ui>>
  \/ \E p \in ScenarioCalls, k \in CapabilityOps :
       SettledEcho /\ CapabilityCall(p, k, EchoConfig.id) /\ UNCHANGED <<turn, env, ui>>
  \/ \E p \in ScenarioCalls : CapabilityOk(p) /\ UNCHANGED <<turn, env, ui>>
SpecEcho == InitEcho /\ [][NextEcho]_vars

\* ------------------------------------------------- MCPProvider: helpers
RegistryVars == <<clients, mc, sess, calls, pc, op, held, caught, result, nStarted>>

\* `{ config, status: 'disconnected' }`
ServerState(config) == [config |-> config, status |-> "disconnected", error |-> "none"]

Listed(servers, id) == \E k \in 1..Len(servers) : servers[k].config.id = id
\* servers.find(s => s.config.id === serverId)
Find(servers, id) == servers[CHOOSE k \in 1..Len(servers) :
                               /\ servers[k].config.id = id
                               /\ \A j \in 1..(k - 1) : servers[j].config.id # id]

\* prev.map(s => s.config.id === id ? { ...s, status } : s)
WithStatus(servers, id, status) ==
  [k \in 1..Len(servers) |->
     IF servers[k].config.id = id THEN [servers[k] EXCEPT !.status = status]
     ELSE servers[k]]

\* prev.map(s => s.config.id === id ? { ...s, status, error } : s)
WithStatusError(servers, id, status, error) ==
  [k \in 1..Len(servers) |->
     IF servers[k].config.id = id
     THEN [servers[k] EXCEPT !.status = status, !.error = error]
     ELSE servers[k]]

ConfigsOf(servers) == [k \in 1..Len(servers) |-> servers[k].config]

\* what saveToStorage writes under `mcp-servers`
saveToStorage(serverStates) == StringifyConfigs(ConfigsOf(serverStates))

\* what saveConnectedServers writes under `mcp-connected-servers`
saveConnectedServers(serverStates) ==
  StringifyIds([k \in 1..Len(SelectSeq(serverStates, LAMBDA s : s.status = "connected")) |->
                  SelectSeq(serverStates, LAMBDA s : s.status = "connected")[k].config.id])

Includes(seq, x) == \E k \in 1..Len(seq) : seq[k] = x

\* ---------------------------------------------------- the API the UI calls
\* POST /api/mcp/connect: the body carries the config as JSON, the handler
\* calls mcpClientManager.connect with it and answers with what it returns
PostConnect(p, config) == ConnectCall(p, ParseConfig(StringifyConfig(config)))

\* POST /api/mcp/disconnect
PostDisconnect(p, serverId) == DisconnectCall(p, serverId)

\* GET /api/mcp/status: `servers.map(s => ({ id: s.id, status: s.status }))`
GetStatus ==
  [k \in 1..Len(getAllServers) |->
     [id |-> getAllServers[k].id, status |-> getAllServers[k].status]]

\* ------------------------------------------------ MCPProvider: the steps
MaxServers == 2

\* The configs the user enters: per id a stdio server and an SSE server whose
\* URL does not parse.
MirrorConfigs == {GoodConfig(i) : i \in Ids} \cup {BadConfig(i) : i \in Ids}

\* What the user pastes into the import dialog besides an exported file.
BadPayloads == {InvalidText, ObjectText, NullText}

\* addServer; the page gives every new server an id of its own
addServer(config) ==
  /\ Len(ui.servers) < MaxServers
  /\ ~Listed(ui.servers, config.id)
  /\ LET newServers == Append(ui.servers, ServerState(config))
     IN ui' = [ui EXCEPT !.servers = newServers,
                         !.items.servers = saveToStorage(newServers)]
  /\ UNCHANGED <<RegistryVars, turn, env>>

removeServer(serverId) ==
  /\ LET newServers == SelectSeq(ui.servers, LAMBDA s : s.config.id # serverId)
     IN ui' = [ui EXCEPT !.servers = newServers,
                         !.items.servers = saveToStorage(newServers)]
  /\ UNCHANGED <<RegistryVars, turn, env>>

updateServer(config) ==
  /\ LET newServers ==
           [k \in 1..Len(ui.servers) |->
              IF ui.servers[k].config.id = config.id
              THEN [ui.servers[k] EXCEPT !.config = config]
              ELSE ui.servers[k]]
     IN ui' = [ui EXCEPT !.servers = newServers,
                         !.items.servers = saveToStorage(newServers)]
  /\ UNCHANGED <<RegistryVars, turn, env>>

\* `JSON.stringify(servers.map(s => s.config), null, 2)`
exportConfig ==
  /\ ui' = [ui EXCEPT !.file = StringifyConfigs(ConfigsOf(ui.servers)),
                      !.returned = "text"]
  /\ UNCHANGED <<RegistryVars, turn, env>>

\* an import that adds the imported configs to the ones the provider holds
importConfigMerging(jsonString) ==
  /\ ui' = IF jsonString.kind = "array"
           THEN LET newServers ==
                      ui.servers \o [k \in 1..Len(jsonString.items) |->
                                       ServerState(ParseConfigs(jsonString)[k])]
                IN [ui EXCEPT !.servers = newServers,
                              !.items.servers = saveToStorage(newServers),
                              !.returned = "true"]
           ELSE [ui EXCEPT !.returned = "false"]
  /\ UNCHANGED <<RegistryVars, turn, env>>

\* lines 399-416: a text JSON.parse rejects and a value that is no array
\* both end in `return false`
importConfig(jsonString) ==
  /\ ui' = IF jsonString.kind = "array"
           THEN LET newServers ==
                      [k \in 1..Len(jsonString.items) |->
                         ServerState(ParseConfigs(jsonString)[k])]
                IN [ui EXCEPT !.servers = newServers,
                              !.items.servers = saveToStorage(newServers),
                              !.returned = "true"]
           ELSE [ui EXCEPT !.returned = "false"]
  /\ UNCHANGED <<RegistryVars, turn, env>>

Waiting(p, kind) == \E w \in ui.waiting : w.req = p /\ w.kind = kind
WaitingOn(p) == CHOOSE w \in ui.waiting : w.req = p

\* connectServer up to `await fetch('/api/mcp/connect', ...)`
connectServer(p, serverId) ==
  /\ IF ~Listed(ui.servers, serverId)
     THEN /\ ui' = [ui EXCEPT !.returned = "false"]
          /\ UNCHANGED RegistryVars
     ELSE /\ PostConnect(p, Find(ui.servers, serverId).config)
          /\ ui' = [ui EXCEPT
               !.servers = WithStatusError(@, serverId, "connecting", "none"),
               !.waiting = @ \cup {[req |-> p, kind |-> "connect", serverId |-> serverId]},
               !.returned = "none"]
  /\ UNCHANGED <<turn, env>>

\* the response arrives: lines 225-240
connectServerResolved(p) ==
  /\ Waiting(p, "connect")
  /\ pc[p] = "done"
  /\ LET newServers ==
           WithStatusError(ui.servers, WaitingOn(p).serverId,
                           IF result[p].success THEN "connected" ELSE "error",
                           result[p].error)
     IN ui' = [ui EXCEPT
          !.servers = newServers,
          !.items.connected = IF result[p].success
                              THEN saveConnectedServers(newServers) ELSE @,
          !.waiting = @ \ {WaitingOn(p)},
          !.returned = IF result[p].success THEN "true" ELSE "false"]
  /\ UNCHANGED <<RegistryVars, turn, env>>

\* fetch rejects (the request did not get through or no response came back):
\* lines 241-247
connectServerRejected(p) ==
  /\ Waiting(p, "connect")
  /\ ui' = [ui EXCEPT
       !.servers = WithStatusError(@, WaitingOn(p).serverId, "error", "Failed to fetch"),
       !.waiting = @ \ {WaitingOn(p)},
       !.returned = "false"]
  /\ UNCHANGED <<RegistryVars, turn, env>>

\* disconnectServer up to `await fetch('/api/mcp/disconnect', ...)`
disconnectServer(p, serverId) ==
  /\ PostDisconnect(p, serverId)
  /\ ui' = [ui EXCEPT
       !.waiting = @ \cup {[req |-> p, kind |-> "disconnect", serverId |-> serverId]},
       !.returned = "none"]
  /\ UNCHANGED <<turn, env>>

\* the response arrives: lines 259-272
disconnectServerResolved(p) ==
  /\ Waiting(p, "disconnect")
  /\ pc[p] = "done"
  /\ LET newServers == WithStatusError(ui.servers, WaitingOn(p).serverId, "disconnected", "none")
     IN ui' = IF result[p].success
              THEN [ui EXCEPT !.servers = newServers,
                              !.items.connected = saveConnectedServers(newServers),
                              !.waiting = @ \ {WaitingOn(p)},
                              !.returned = "true"]
              ELSE [ui EXCEPT !.waiting = @ \ {WaitingOn(p)}, !.returned = "false"]
  /\ UNCHANGED <<RegistryVars, turn, env>>

\* fetch rejects: lines 273-276
disconnectServerRejected(p) ==
  /\ Waiting(p, "disconnect")
  /\ ui' = [ui EXCEPT !.waiting = @ \ {WaitingOn(p)}, !.returned = "false"]
  /\ UNCHANGED <<RegistryVars, turn, env>>

\* ------------------------------------------- MCPProvider: specifications
\* What the user imports: a text that is no JSON array, or a file exported
\* from a provider with at most one server.
Payloads ==
  BadPayloads \cup {StringifyConfigs(<<>>)}
              \cup {StringifyConfigs(<<c>>) : c \in MirrorConfigs}

\* The user works with the page of one browser tab, whose provider is mounted
\* on an empty localStorage; the registry serves this tab only.
NextMirror ==
  \/ \E c \in MirrorConfigs : addServer(c)
  \/ \E id \in Ids : removeServer(id)
  \/ \E c \in MirrorConfigs : updateServer(c)
  \/ \E text \in Payloads : importConfig(text)
  \/ \E p \in Procs, id \in Ids : connectServer(p, id)
  \/ \E p \in Procs : connectServerResolved(p)
  \/ \E p \in Procs : connectServerRejected(p)
  \/ \E p \in Procs, id \in Ids : disconnectServer(p, id)
  \/ \E p \in Procs : disconnectServerResolved(p)
  \/ \E p \in Procs : disconnectServerRejected(p)
  \/ \E p \in Procs : ConnectDisconnected(p) /\ UNCHANGED <<turn, env, ui>>
  \/ \E p \in Procs : ConnectResume(p) /\ UNCHANGED <<turn, env, ui>>
  \/ \E p \in Procs : ConnectTransport(p) /\ UNCHANGED <<turn, env, ui>>
  \/ \E p \in Procs : ConnectHandshakeOk(p) /\ UNCHANGED <<turn, env, ui>>
  \/ \E p \in Procs, e \in SessionThrows : ConnectHandshakeFail(p, e) /\ UNCHANGED <<turn, env, ui>>
  \/ \E p \in Procs : DisconnectClosed(p) /\ UNCHANGED <<turn, env, ui>>
SpecMirror == Init /\ [][NextMirror]_vars

\* Export and import.  The provider holds a list of servers with ids of
\* their own, each in a status a connect attempt leaves (the registry that
\* made the attempts has been restarted since); the user edits the list,
\* exports the configs to a file and imports the file or a text that is no
\* JSON array.
SettledStates ==
  { [config |-> c, status |-> "disconnected", error |-> "none"] : c \in MirrorConfigs }
    \cup { [config |-> GoodConfig(i), status |-> "connected", error |-> "none"] : i \in Ids }
    \cup { [config |-> BadConfig(i), status |-> "error", error |-> "Invalid URL"] : i \in Ids }

ServerLists ==
  { l \in UNION {[1..n -> SettledStates] : n \in 0..MaxServers} :
      \A j, k \in 1..Len(l) : j # k => l[j].config.id # l[k].config.id }

InitPort ==
  /\ clients = <<>>
  /\ mc = [p \in Procs |-> NoClient]
  /\ sess = [p \in Procs |-> "none"]
  /\ calls = [p \in Procs |-> 0]
  /\ pc = [p \in Procs |-> "idle"]
  /\ op = [p \in Procs |-> NoOp]
  /\ held = [p \in Procs |-> 0]
  /\ caught = [p \in Procs |-> NoThrow]
  /\ result = [p \in Procs |-> NoResult]
  /\ nStarted = 0
  /\ turn = NoTurn
  /\ env = NoChat
  /\ \E l \in ServerLists :
       ui = [NoMirror EXCEPT !.servers = l,
                             !.items.servers = IF l = <<>> THEN NoItem ELSE saveToStorage(l)]

PortPayloads == BadPayloads \cup (IF ui.file = NoItem THEN {} ELSE {ui.file})

NextPort ==
  \/ \E c \in MirrorConfigs : addServer(c)
  \/ \E id \in Ids : removeServer(id)
  \/ \E c \in MirrorConfigs : updateServer(c)
  \/ exportConfig
  \/ \E text \in PortPayloads : importConfig(text)
SpecPort == InitPort /\ [][NextPort]_vars

\* ------------------------------------------- MCPProvider: load sequence
LoadWaits == {"reconnect_wait", "fallback_wait"}

\* The for-of over configs from the config after position u.load.k on: the
\* loop of the try block (wait = reconnect_wait) or of the catch block
\* (fallback_wait), up to the next call of reconnectServer or to the end.
RECURSIVE LoadVisit(_, _)
\* a loop that reconnects every config, remembered as connected or not
LoadVisitAll(u, wait) ==
  IF u.load.k >= Len(u.load.configs)
  THEN [u EXCEPT !.load.pc = "done", !.load.req = 0]
  ELSE LET config == u.load.configs[u.load.k + 1]
           v == [u EXCEPT !.load.k = @ + 1]
       IN IF wait = "reconnect_wait" /\ config.id \in u.load.serverConnectedIds
          THEN LoadVisit([v EXCEPT !.servers = WithStatus(@, config.id, "connected")], wait)
          ELSE [v EXCEPT !.servers = WithStatus(@, config.id, "connecting"),
                         !.load.pc = wait]

LoadVisit(u, wait) ==
  IF u.load.k >= Len(u.load.configs)
  THEN [u EXCEPT !.load.pc = "done", !.load.req = 0]
  ELSE LET config == u.load.configs[u.load.k + 1]
           v == [u EXCEPT !.load.k = @ + 1]
       IN IF wait = "reconnect_wait" /\ config.id \in u.load.serverConnectedIds
          THEN LoadVisit([v EXCEPT !.servers = WithStatus(@, config.id, "connected")], wait)
          ELSE IF Includes(u.load.previouslyConnected, config.id)
               THEN [v EXCEPT !.servers = WithStatus(@, config.id, "connecting"),
                              !.load.pc = wait]
               ELSE LoadVisit(v, wait)

\* A step of initializeServers that leaves the provider as u: if the loop
\* stopped at a config to reconnect, reconnectServer posts the connect request.
LoadStep(u) ==
  /\ IF u.load.pc \in LoadWaits
     THEN /\ nStarted + 1 \in DOMAIN pc
          /\ PostConnect(nStarted + 1, u.load.configs[u.load.k])
          /\ ui' = [u EXCEPT !.load.req = nStarted + 1]
     ELSE /\ ui' = u
          /\ UNCHANGED RegistryVars
  /\ UNCHANGED <<turn, env>>

\* lines 84-101: localStorage is read, every config is listed as
\* disconnected and the status query is sent; the outer catch ends the load
\* when a stored text does not parse to an array
initializeServers ==
  /\ ui.load.pc = "idle"
  /\ LET saved == ui.items.servers
         savedConnected == ui.items.connected
     IN ui' = IF saved = NoItem \/ saved.kind # "array"
                 \/ savedConnected.kind \notin {"absent", "array"}
              THEN [ui EXCEPT !.load.pc = "done"]
              ELSE [ui EXCEPT
                      !.servers = [k \in 1..Len(saved.items) |->
                                     ServerState(ParseConfigs(saved)[k])],
                      !.load = [NoLoad EXCEPT
                                  !.pc = "status_wait",
                                  !.configs = ParseConfigs(saved),
                                  !.previouslyConnected =
                                     IF savedConnected = NoItem THEN <<>>
                                     ELSE ParseIds(savedConnected)]]
  /\ UNCHANGED <<RegistryVars, turn, env>>

\* lines 101-135: the status query is answered with the registry's snapshot
statusResolved ==
  /\ ui.load.pc = "status_wait"
  /\ LoadStep(LoadVisit(
       [ui EXCEPT !.load.synced = TRUE,
                  !.load.serverConnectedIds =
                     {GetStatus[k].id : k \in {j \in 1..Len(GetStatus) :
                                                 GetStatus[j].status = "connected"}}],
       "reconnect_wait"))

\* lines 136-155: the status query fails
statusRejected ==
  /\ ui.load.pc = "status_wait"
  /\ LoadStep(LoadVisit(ui, "fallback_wait"))

\* reconnectServer returns result.success ...
reconnectResolved ==
  /\ ui.load.pc \in LoadWaits
  /\ pc[ui.load.req] = "done"
  /\ LoadStep(LoadVisit(
       [ui EXCEPT !.servers =
          WithStatus(@, ui.load.configs[ui.load.k].id,
                     IF result[ui.load.req].success THEN "connected" ELSE "disconnected")],
       ui.load.pc))

\* ... or false when its fetch rejects: the handler ran, its response got lost
reconnectRejected ==
  /\ ui.load.pc \in LoadWaits
  /\ pc[ui.load.req] = "done"
  /\ LoadStep(LoadVisit(
       [ui EXCEPT !.servers = WithStatus(@, ui.load.configs[ui.load.k].id, "disconnected")],
       ui.load.pc))

\* The provider is mounted in a browser whose localStorage holds what an
\* earlier session left; the registry holds an entry for every id, those of
\* the ids in ok connected, and serves this provider only.
LoadCalls == 1..(NumIds + MaxServers)

SavedLists ==
  { l \in UNION {[1..n -> MirrorConfigs] : n \in 0..MaxServers} :
      \A j, k \in 1..Len(l) : j # k => l[j].id # l[k].id }
SavedIds ==
  { l \in UNION {[1..n -> Ids] : n \in 0..NumIds} :
      \A j, k \in 1..Len(l) : j < k => l[j] < l[k] }

InitLoad ==
  /\ \E ok \in SUBSET Ids : RegistryOf(LoadCalls, ok)
  /\ turn = NoTurn
  /\ env = NoChat
  /\ \E l \in SavedLists, c \in {NoItem} \cup {StringifyIds(x) : x \in SavedIds} :
       ui = [NoMirror EXCEPT !.items = [servers |-> IF l = <<>> THEN NoItem
                                                    ELSE StringifyConfigs(l),
                                        connected |-> c]]

NextLoad ==
  \/ initializeServers
  \/ statusResolved
  \/ statusRejected
  \/ reconnectResolved
  \/ reconnectRejected
  \/ \E p \in LoadCalls : ConnectDisconnected(p) /\ UNCHANGED <<turn, env, ui>>
  \/ \E p \in LoadCalls : ConnectResume(p) /\ UNCHANGED <<turn, env, ui>>
  \/ \E p \in LoadCalls : ConnectTransport(p) /\ UNCHANGED <<turn, env, ui>>
  \/ \E p \in LoadCalls : ConnectHandshakeOk(p) /\ UNCHANGED <<turn, env, ui>>
  \/ \E p \in LoadCalls, e \in CallThrows : ConnectHandshakeFail(p, e) /\ UNCHANGED <<turn, env, ui>>
SpecLoad == InitLoad /\ [][NextLoad]_vars

\* ----------------------------------------------------------------- claims
\* the call p made is `kind` and this step is the one in which it settles
Settles(p, kind) == op'[p].kind = kind /\ pc[p] # "done" /\ pc'[p] = "done"

\* the id call p names
IdOf(p) == op[p].id

\* C1: no two open protocol sessions exist for one server id, whatever
\* sequence of connect calls is made and also when closing the earlier
\* session fails.
C1_NoTwoOpenSessions ==
  \A p, q \in Procs :
    (p # q /\ sess[p] = "open" /\ sess[q] = "open") => IdOf(p) # IdOf(q)

\* C2: every session created for an id is the session of that id's registry
\* entry or is not open (connect/disconnect on one id are serialised).
C2_SessionHeldOrClosed ==
  \A p \in Procs : sess[p] = "open" => MapGet(clients, IdOf(p)) = p

\* C3: in the step in which a connect call settles, getStatus of its id is
\* connected or error, never connecting.
C3_SettledNotConnecting ==
  [][\A p \in Procs :
       Settles(p, "connect") => getStatus(IdOf(p))' \in {"connected", "error"}]_vars

C3_Witness ==
  \E p \in Procs :
    /\ pc[p] = "done" /\ op[p].kind = "connect" /\ result[p] = Success
    /\ getStatus(IdOf(p)) = "connected"

\* C4: a connect whose transport construction or handshake fails returns
\* {success: false, error: message}, and the registry entry of its id is the
\* one it created, with status error and the same message.
C4_FailureRecorded ==
  [][\A p \in Procs :
       (Settles(p, "connect") /\ caught'[p] # NoThrow) =>
         /\ result'[p] = Failure(ErrorMessage(caught'[p]))
         /\ MapGet(clients', IdOf(p)) = p
         /\ mc'[p].status = "error"
         /\ mc'[p].error = result'[p].error]_vars

C4_Witness ==
  \E p \in Procs :
    /\ pc[p] = "done" /\ op[p].kind = "connect" /\ op[p].config.transport = "ftp"
    /\ result[p] = Failure("Unsupported transport type: ftp")
    /\ getStatus(IdOf(p)) = "error"

\* C5: a disconnect that found an entry leaves the id without an entry when it
\* settles, also when close() failed: getStatus is disconnected and the id is
\* not in getAllServers().
C5_DisconnectRemoves ==
  [][\A p \in Procs :
       (Settles(p, "disconnect") /\ pc[p] = "d_close") =>
         /\ getStatus(IdOf(p))' = "disconnected"
         /\ \A i \in DOMAIN getAllServers' : getAllServers'[i].id # IdOf(p)]_vars

\* C6: disconnect of an id without an entry returns the failure `Server not
\* found` and changes nothing, so that a second call finds the same state and
\* returns the same.
C6_NotFoundUnchanged ==
  [][\A p \in Procs :
       (pc[p] = "idle" /\ op'[p].kind = "disconnect" /\ MapGet(clients, op'[p].id) = 0) =>
         /\ pc'[p] = "done"
         /\ result'[p] = Failure("Server not found")
         /\ clients' = clients /\ mc' = mc /\ sess' = sess /\ calls' = calls]_vars

C6_Witness ==
  \E p, q \in Procs :
    /\ q = p + 1 /\ IdOf(p) = IdOf(q)
    /\ op[p].kind = "disconnect" /\ op[q].kind = "disconnect"
    /\ result[p] = Failure("Server not found") /\ result[q] = result[p]
    /\ pc[p] = "done" /\ pc[q] = "done"

\* C7: a capability call for an id that is absent or whose status is not
\* connected returns `Server not connected` at once, issues no call on any
\* session and changes no registry entry.
C7_NotConnectedNoCall ==
  [][\A p \in Procs :
       (pc[p] = "idle" /\ op'[p].kind \in CapabilityOps
          /\ getStatus(op'[p].id) # "connected") =>
         /\ pc'[p] = "done"
         /\ result'[p] = Failure("Server not connected")
         /\ calls' = calls /\ sess' = sess /\ clients' = clients /\ mc' = mc]_vars

C7_Witness ==
  \E p, q \in Procs :
    /\ q = p + 1 /\ IdOf(p) = IdOf(q)
    /\ op[p].kind = "connect" /\ pc[p] = "c_handshake"
    /\ op[q].kind = "callTool" /\ pc[q] = "done"
    /\ result[q] = Failure("Server not connected")
    /\ getStatus(IdOf(q)) = "connecting" /\ calls[p] = 0

\* C8: an entry's session is open if its status is connected and not open if
\* its status is error, and no session of an id is open while the id is
\* observed as disconnected or error.
C8_SessionIffLive ==
  /\ \A i \in Ids :
       LET r == MapGet(clients, i) IN
         r # 0 => /\ mc[r].status = "connected" => sess[r] = "open"
                  /\ mc[r].status = "error" => sess[r] # "open"
  /\ \A p \in Procs :
       sess[p] = "open" => getStatus(IdOf(p)) \in {"connecting", "connected"}

\* C9 as stated: every change of the status getStatus observes for an id is
\* disconnected->connecting, connecting->connected, connecting->error,
\* connected->disconnected or connected->connecting.
StatedEdges ==
  { <<"disconnected", "connecting">>, <<"connecting", "connected">>,
    <<"connecting", "error">>, <<"connected", "disconnected">>,
    <<"connected", "connecting">> }

C9_StatedEdgesOnly ==
  [][\A i \in Ids :
       getStatus(i)' # getStatus(i) => <<getStatus(i), getStatus(i)'>> \in StatedEdges]_vars

\* C9 amended: when each call is made after the earlier ones have settled,
\* every change of the observed status is one of the stated edges or
\* error->disconnected (the entry of a failed connect is removed).
C9_SequentialEdges ==
  [][\A i \in Ids :
       getStatus(i)' # getStatus(i) =>
         <<getStatus(i), getStatus(i)'>> \in StatedEdges \cup {<<"error", "disconnected">>}]_vars

C9_Witness ==
  \E p, q \in Procs :
    /\ q = p + 1 /\ IdOf(p) = IdOf(q)
    /\ op[p].kind = "connect" /\ pc[p] = "done" /\ mc[p].status = "error"
    /\ op[q].kind = "disconnect" /\ pc[q] = "done" /\ result[q] = Success
    /\ getStatus(IdOf(q)) = "disconnected"

\* C10: an entry that is connecting eventually becomes connected or error,
\* also when the server never answers.
C10_LeavesConnecting ==
  \A p \in Procs :
    (MapGet(clients, IdOf(p)) = p /\ mc[p].status = "connecting")
      ~> (mc[p].status \in {"connected", "error"})

\* C11: one chat turn calls generateContent at most maxIterations (5) times in
\* the function-calling loop, one call per round entered, and once the last
\* round is over the handler has returned a response, also when every
\* response of the model asked for function calls.
C11_AtMostFiveGenerateCalls ==
  /\ env.genCalls <= maxIterations
  /\ env.genCalls = turn.iterations
  /\ (turn.iterations = maxIterations /\ turn.pc \notin {"gen_wait", "tool_wait"})
       => (turn.pc = "done" /\ turn.http.status # 0)

\* five rounds, each answered with function calls, and the turn has returned
C11_Witness ==
  /\ turn.pc = "done"
  /\ env.genCalls = maxIterations
  /\ Len(turn.currentContents) = Len(InitialContents) + 2 * maxIterations

\* C12: the declaration names built in one aggregation are pairwise distinct:
\* two declarations made for different (serverId, toolName) pairs never carry
\* the same name.
C12_DistinctNames ==
  turn.pc = "declared" =>
    \A j, k \in 1..Len(turn.declarations) :
      LET f == Flatten(turn.allTools)
      IN (f[j].serverId # f[k].serverId \/ f[j].tool.name # f[k].tool.name)
           => turn.declarations[j].name # turn.declarations[k].name

\* C13: a function call made under the name declared for tool t of server A
\* is executed as callTool(A, t, args): the routing table built with the
\* declarations resolves the name of every declared (server, tool) pair to
\* that pair, and the session a call waits on is the one of the server its
\* name resolves to.
C13_RoutedToDeclaringServer ==
  /\ turn.pc = "declared" =>
       \A k \in 1..Len(turn.declarations) :
         LET f == Flatten(turn.allTools)
         IN turn.toolMap[turn.declarations[k].name] =
              [serverId |-> f[k].serverId, toolName |-> f[k].tool.name]
  /\ turn.pc = "tool_wait" =>
       mc[turn.held].config.id =
         turn.toolMap[turn.response.functionCalls[turn.idx].name].serverId

\* C14: getAllTools visits every entry whose status is connected, in Map
\* order; a listTools that succeeds adds exactly one record {serverId,
\* serverName, tools} for that entry, a listTools that fails adds nothing and
\* removes nothing, and after either outcome the loop goes on to the next
\* connected entry or returns the list: it never fails.
C14_FailingServerSkipped ==
  [][turn.pc \in {"agg1_wait", "agg2_wait"} =>
       /\ ChatListOk =>
            turn'.allTools =
              Append(turn.allTools,
                     [serverId |-> mc[turn.held].config.id,
                      serverName |-> mc[turn.held].config.name,
                      tools |-> [k \in 1..Len(env.tools[mc[turn.held].config.id]) |->
                                   [name |-> env.tools[mc[turn.held].config.id][k],
                                    description |-> ""]]])
       /\ (\E e \in CallThrows : ChatListFail(e)) => turn'.allTools = turn.allTools
       /\ turn'.pc \in {"agg1_wait", "agg2_wait", "declared", "gen_wait"}
       /\ IF turn'.pc \in {"agg1_wait", "agg2_wait"}
          THEN /\ turn'.iter > turn.iter
               /\ mc[clients[turn'.iter].ref].status = "connected"
               /\ turn'.held = clients[turn'.iter].ref
               /\ \A j \in (turn.iter + 1)..(turn'.iter - 1) :
                    mc[clients[j].ref].status # "connected"
          ELSE \A j \in (turn.iter + 1)..Len(clients) :
                 mc[clients[j].ref].status # "connected"
  ]_vars

\* getAllTools has returned the tools of the second server although the
\* listTools of the first, connected, server failed
C14_Witness ==
  /\ turn.pc = "declared"
  /\ mc[1].status = "connected" /\ calls[1] = 1
  /\ Len(turn.allTools) = 1 /\ turn.allTools[1].serverId = 2

\* -------------------------------------------- reading one step of a round
\* A step that handles function calls: it leaves the wait for generateContent
\* with function calls to run, or the wait for a tool.
HandlesCalls ==
  \/ turn.pc = "tool_wait"
  \/ /\ turn.pc = "gen_wait"
     /\ (turn'.pc = "tool_wait" \/ Len(turn'.currentContents) > Len(turn.currentContents))
\* After the step the round is still running, or it has been appended to the
\* conversation.
RoundRunning == turn'.pc = "tool_wait"
\* the function calls of the round the step belongs to
StepCalls ==
  IF RoundRunning THEN turn'.response.functionCalls
  ELSE [k \in 1..Len(turn'.currentContents[Len(turn'.currentContents) - 1].parts) |->
          turn'.currentContents[Len(turn'.currentContents) - 1].parts[k].functionCall]
\* the function responses of that round
StepResponses ==
  IF RoundRunning THEN turn'.functionResponses
  ELSE turn'.currentContents[Len(turn'.currentContents)].parts
\* the calls the step has finished: StepFrom..StepUpto
StepFrom == IF turn.pc = "gen_wait" THEN 1 ELSE turn.idx
StepUpto == IF RoundRunning THEN turn'.idx - 1 ELSE Len(StepCalls)
Known(name) == name \in DOMAIN turn.toolMap
UnknownResponse(name) ==
  [functionResponse |->
     [name |-> name,
      response |-> [result |-> <<"json", [error |-> "Unknown tool: " \o name]>>]]]
\* the records the step added to the trace
StepRecords == SubSeq(turn'.toolCallsInfo, Len(turn.toolCallsInfo) + 1, Len(turn'.toolCallsInfo))
\* the step neither failed the turn nor stopped short of a call it could finish
Proceeds ==
  /\ turn'.pc \in {"tool_wait", "gen_wait", "done"}
  /\ turn'.http.status # 500
  /\ RoundRunning => Known(StepCalls[turn'.idx].name)

\* C15 as stated: a call of a function name that is not declared gets an
\* error result both in its function response and in a record of the turn's
\* tool-call trace, and the remaining calls and rounds proceed.
C15_UnknownNameRecorded ==
  [][HandlesCalls =>
       /\ \A k \in StepFrom..StepUpto :
            ~Known(StepCalls[k].name) =>
              /\ StepResponses[k] = UnknownResponse(StepCalls[k].name)
              /\ \E j \in 1..Len(StepRecords) :
                   StepRecords[j].result = [error |-> "Unknown tool: " \o StepCalls[k].name]
       /\ Proceeds
  ]_vars

\* C15, amended: a call of a function name that is not declared gets an error
\* result in its function response (every finished call of the round has its
\* function response); the tool-call trace gets a record for
\* every call whose name is declared and none for the others; the remaining
\* calls and rounds proceed.
C15_UnknownNameAnswered ==
  [][HandlesCalls =>
       /\ Len(StepResponses) = StepUpto
       /\ \A k \in StepFrom..StepUpto :
            ~Known(StepCalls[k].name) =>
              StepResponses[k] = UnknownResponse(StepCalls[k].name)
       /\ Len(StepRecords) = Cardinality({k \in StepFrom..StepUpto : Known(StepCalls[k].name)})
       /\ \A j \in 1..Len(StepRecords) :
            \A n \in {c.name : c \in {StepCalls[k] : k \in 1..Len(StepCalls)}} :
              StepRecords[j].result # [error |-> "Unknown tool: " \o n]
       /\ Proceeds
  ]_vars

\* an undeclared name was called first in a batch of two, the declared one
\* after it is waiting for its tool
C15_Witness ==
  /\ turn.pc = "tool_wait" /\ turn.idx = 2
  /\ turn.response.functionCalls[1].name = "nope"
  /\ turn.functionResponses = <<UnknownResponse("nope")>>

\* the number of calls with a declared name among the calls a..b of the round
KnownIn(a, b) == Cardinality({k \in a..b : Known(StepCalls[k].name)})
\* The call the step began with was waiting for its tool, and the tool call
\* was rejected; every other call the step finishes is one callTool refused
\* because the server is not connected, or one with an undeclared name.
Awaited(k) == turn.pc = "tool_wait" /\ k = turn.idx
FailedCall(k) ==
  /\ Known(StepCalls[k].name)
  /\ Awaited(k) => \E e \in CallThrows : ChatToolFail(e)
FailureOf(k) == IF Awaited(k) THEN "remote failure" ELSE "Server not connected"

\* C16: when callTool fails for a requested call, because the server is not
\* connected or because the remote call is rejected, that call gets the error
\* as its result, in its function response and in its record of the trace;
\* every call of the round has its response and every call with a declared
\* name its record; the turn goes on and does not fail.
C16_FailedCallIsolated ==
  [][(HandlesCalls /\ turn' # turn) =>
       /\ Proceeds
       /\ Len(StepResponses) = StepUpto
       /\ Len(StepRecords) = KnownIn(StepFrom, StepUpto)
       /\ \A k \in StepFrom..StepUpto :
            FailedCall(k) =>
              /\ StepResponses[k] =
                   [functionResponse |->
                      [name |-> StepCalls[k].name,
                       response |-> [result |-> <<"json", [error |-> FailureOf(k)]>>]]]
              /\ StepRecords[KnownIn(StepFrom, k)].toolName =
                   turn.toolMap[StepCalls[k].name].toolName
              /\ StepRecords[KnownIn(StepFrom, k)].arguments = StepCalls[k].args
              /\ StepRecords[KnownIn(StepFrom, k)].result = [error |-> FailureOf(k)]
  ]_vars

\* the turn returned a response whose trace holds the refused call of a
\* disconnected server and, after it, the executed call of another server
C16_Witness ==
  /\ turn.pc = "done" /\ turn.http.status = 200
  /\ Len(turn.http.toolCalls) = 2
  /\ turn.http.toolCalls[1].result = [error |-> "Server not connected"]
  /\ turn.http.toolCalls[2].result = [server |-> 2, tool |-> "c", args |-> "x"]

\* A step that ends a round: the conversation grows.
EndsRound ==
  /\ turn.pc \in {"gen_wait", "tool_wait"}
  /\ Len(turn'.currentContents) > Len(turn.currentContents)
\* what the round appended, if it appended two messages
ModelMessage == turn'.currentContents[Len(turn.currentContents) + 1]
ResponseMessage == turn'.currentContents[Len(turn.currentContents) + 2]
\* The conversation is extended by one model message carrying the calls the
\* model requested, in the order requested, then one message carrying one
\* function response for each call, the i-th one named as the i-th call.
RoundAppended ==
  /\ Len(turn'.currentContents) = Len(turn.currentContents) + 2
  /\ SubSeq(turn'.currentContents, 1, Len(turn.currentContents)) = turn.currentContents
  /\ ModelMessage.role = "model" /\ ResponseMessage.role = "user"
  /\ turn.pc = "tool_wait" =>
       ModelMessage.parts = [k \in 1..Len(turn.response.functionCalls) |->
                               [functionCall |-> turn.response.functionCalls[k]]]
  /\ Len(ModelMessage.parts) > 0
  /\ Len(ResponseMessage.parts) = Len(ModelMessage.parts)
  /\ \A i \in 1..Len(ModelMessage.parts) :
       ResponseMessage.parts[i].functionResponse.name = ModelMessage.parts[i].functionCall.name
\* record r of the trace holds the result that function response i carries
SameResult(r, i) ==
  /\ turn'.toolCallsInfo[r].arguments = ModelMessage.parts[i].functionCall.args
  /\ ResponseMessage.parts[i].functionResponse.response.result =
       <<"json", turn'.toolCallsInfo[r].result>>
\* the number of calls with a declared name among the first i calls of the round
KnownUpto(i) ==
  Cardinality({k \in 1..i : ModelMessage.parts[k].functionCall.name \in DOMAIN turn.toolMap})

\* C17 as stated: a round with k function calls extends the conversation by
\* one model message with the k calls and one message with the k function
\* responses, the i-th response belongs to the i-th call, and the round's
\* i-th tool-call record belongs to the i-th call.
C17_RoundInRequestOrder ==
  [][EndsRound =>
       /\ RoundAppended
       /\ Len(turn'.toolCallsInfo) >= Len(ModelMessage.parts)
       /\ \A i \in 1..Len(ModelMessage.parts) :
            /\ ModelMessage.parts[i].functionCall.name \in DOMAIN turn.toolMap
            /\ turn'.toolCallsInfo[Len(turn'.toolCallsInfo) - Len(ModelMessage.parts) + i].toolName
                 = turn.toolMap[ModelMessage.parts[i].functionCall.name].toolName
            /\ SameResult(Len(turn'.toolCallsInfo) - Len(ModelMessage.parts) + i, i)
  ]_vars

\* C17, amended: a round with k function calls extends the conversation by
\* one model message with the k calls and one message with the k function
\* responses, the i-th response belongs to the i-th call; the round's
\* tool-call records are those of the calls whose name is declared, in the
\* order the calls were requested.
C17_RoundAnsweredInOrder ==
  [][EndsRound =>
       /\ RoundAppended
       /\ Len(turn'.toolCallsInfo) >= KnownUpto(Len(ModelMessage.parts))
       /\ \A i \in 1..Len(ModelMessage.parts) :
            IF ModelMessage.parts[i].functionCall.name \in DOMAIN turn.toolMap
            THEN /\ turn'.toolCallsInfo[Len(turn'.toolCallsInfo)
                                          - KnownUpto(Len(ModelMessage.parts)) + KnownUpto(i)].toolName
                      = turn.toolMap[ModelMessage.parts[i].functionCall.name].toolName
                 /\ SameResult(Len(turn'.toolCallsInfo)
                                 - KnownUpto(Len(ModelMessage.parts)) + KnownUpto(i), i)
            ELSE ResponseMessage.parts[i].functionResponse.response.result =
                   <<"json", [error |-> "Unknown tool: " \o ModelMessage.parts[i].functionCall.name]>>
  ]_vars

\* a round of two calls, an undeclared name before a declared one, has been
\* appended to the conversation
C17_Witness ==
  /\ Len(turn.currentContents) >= 3
  /\ Len(turn.currentContents[2].parts) = 2
  /\ turn.currentContents[2].parts[1].functionCall.name = "nope"
  /\ turn.currentContents[2].parts[2].functionCall.name = "a__c"
  /\ Len(turn.currentContents[3].parts) = 2
  /\ Len(turn.toolCallsInfo) >= 1

\* C18: the tool-call trace only grows during a turn, and when the fifth
\* round, like the four before it, ends in function calls the turn does not
\* fail: without calling the model again it returns a 200 response with the
\* final text, which is empty, and the whole trace.
C18_CapReturnsTrace ==
  [][/\ Len(turn'.toolCallsInfo) >= Len(turn.toolCallsInfo)
     /\ SubSeq(turn'.toolCallsInfo, 1, Len(turn.toolCallsInfo)) = turn.toolCallsInfo
     /\ (EndsRound /\ turn.iterations = maxIterations) =>
          /\ turn'.pc = "done"
          /\ turn'.http.status = 200
          /\ turn'.http.body = ""
          /\ turn'.http.toolCalls = turn'.toolCallsInfo
          /\ env'.genCalls = env.genCalls
  ]_vars

\* five rounds of function calls, the last call executed, and the turn has
\* returned the empty text with the five records
C18_Witness ==
  /\ turn.pc = "done" /\ turn.iterations = maxIterations
  /\ Len(turn.currentContents) = Len(InitialContents) + 2 * maxIterations
  /\ turn.http.status = 200 /\ turn.http.type = "json" /\ turn.http.body = ""
  /\ Len(turn.http.toolCalls) = maxIterations

\* C19: for a server that exposes no tools, when connect has succeeded and
\* listTools and then disconnect have been called and have returned, listTools
\* has returned success with an empty list, disconnect has returned success,
\* the entry is gone and getStatus returns `disconnected`.
C19_EmptyToolListScenario ==
  \A p \in 1..(nStarted - 2) :
    ( /\ nStarted = p + 2
      /\ op[p].kind = "connect" /\ result[p] = [success |-> TRUE, error |-> "none"]
      /\ op[p + 1].kind = "listTools" /\ pc[p + 1] = "done"
      /\ op[p + 2].kind = "disconnect" /\ pc[p + 2] = "done" )
    => /\ result[p + 1] = [success |-> TRUE, error |-> "none", tools |-> <<>>]
       /\ result[p + 2] = [success |-> TRUE, error |-> "none"]
       /\ \A i \in 1..Len(clients) : clients[i].id # op[p].id
       /\ getStatus(op[p].id) = "disconnected"

\* C20: getStatus returns a status for every id: the status of the entry if
\* the Map holds one for the id, and `disconnected` if it holds none, for an
\* id no call ever named just as for an id whose entry was removed.
C20_StatusOfAnyId ==
  \A i \in Ids :
    /\ getStatus(i) \in {"connecting", "connected", "disconnected", "error"}
    /\ \A k \in 1..Len(clients) :
         clients[k].id = i => getStatus(i) = mc[clients[k].ref].status
    /\ (\A k \in 1..Len(clients) : clients[k].id # i) => getStatus(i) = "disconnected"

\* the first server was connected and then disconnected, the second one was
\* never named by any call: getStatus does not tell them apart
C20_Witness ==
  /\ op[1].kind = "connect" /\ op[1].id = 1 /\ result[1] = [success |-> TRUE, error |-> "none"]
  /\ op[2].kind = "disconnect" /\ op[2].id = 1 /\ pc[2] = "done"
  /\ result[2] = [success |-> TRUE, error |-> "none"]
  /\ clients = <<>>
  /\ getStatus(1) = "disconnected" /\ getStatus(2) = "disconnected"

\* the lists of configs a provider can hold
ConfigLists == {ConfigsOf(l) : l \in ServerLists}

\* C21: importing the text exportConfig returned for a list of configs into a
\* provider that holds no server yields exactly these configs, field for
\* field and in the same order, each with status disconnected.
C21_ExportImportRoundTrip ==
  [][(ui.servers = <<>> /\ ui.file # NoItem /\ importConfig(ui.file)) =>
       \A L \in ConfigLists :
         ui.file = StringifyConfigs(L) =>
           ui'.servers =
             [k \in 1..Len(L) |-> [config |-> L[k], status |-> "disconnected", error |-> "none"]]
  ]_vars

\* a file with a stdio config (no url) behind another config has been
\* imported and the provider holds what the file was exported from
C21_Witness ==
  /\ ui.returned = "true"
  /\ Len(ui.servers) = MaxServers
  /\ ui.servers[1].config.id > ui.servers[2].config.id
  /\ ui.servers[2].config.url = "none"
  /\ ui.file = StringifyConfigs(ConfigsOf(ui.servers))

Reconnects(id) == {p \in LoadCalls \ Ids : op[p].kind = "connect" /\ op[p].id = id}

\* C23: when the load sequence has completed after an answered status query,
\* a config reported connected is listed as connected and no connect request
\* was issued for it; a config remembered as connected but not reported
\* connected has had exactly one connect request and is listed with the
\* status the registry holds for its id; every other config is listed as
\* disconnected and no connect request was issued for it.
C23_LoadAdoptsRegistryStatus ==
  (ui.load.pc = "done" /\ ui.load.synced) =>
    \A k \in 1..Len(ui.servers) :
      LET id == ui.servers[k].config.id
      IN IF id \in ui.load.serverConnectedIds
         THEN ui.servers[k].status = "connected" /\ Reconnects(id) = {}
         ELSE IF Includes(ui.load.previouslyConnected, id)
              THEN /\ Cardinality(Reconnects(id)) = 1
                   /\ ui.servers[k].status = getStatus(id)
              ELSE ui.servers[k].status = "disconnected" /\ Reconnects(id) = {}

\* C24: when the load sequence has completed after a failed status query,
\* exactly one connect request was issued for every config remembered as
\* connected, none for any other id, and no config is listed as connecting.
C24_FallbackReconnectsRemembered ==
  (ui.load.pc = "done" /\ ui.load.configs # <<>> /\ ~ui.load.synced) =>
    /\ \A k \in 1..Len(ui.servers) :
         /\ ui.servers[k].status \in {"connected", "disconnected"}
         /\ Cardinality(Reconnects(ui.servers[k].config.id)) =
              IF Includes(ui.load.previouslyConnected, ui.servers[k].config.id) THEN 1 ELSE 0
    /\ \A id \in Ids : ~Listed(ui.servers, id) => Reconnects(id) = {}

\* the status query failed and the load has completed: both configs were
\* remembered, one reconnect succeeded and one failed; a third id that was
\* remembered but has no config was left alone
C24_Witness ==
  /\ ui.load.pc = "done" /\ ~ui.load.synced
  /\ Len(ui.servers) = MaxServers
  /\ \A k \in 1..Len(ui.servers) : Cardinality(Reconnects(ui.servers[k].config.id)) = 1
  /\ \E j, k \in 1..Len(ui.servers) :
       ui.servers[j].status = "connected" /\ ui.servers[k].status = "disconnected"

\* C25: once a disconnect of an id has returned success, the registry holds
\* no entry for the id (getStatus is disconnected) as long as every connect
\* call for the id was made before that disconnect call: a connect in flight
\* does not put an entry back.
C25_NoEntryAfterDisconnect ==
  \A p \in Procs :
    (/\ op[p].kind = "disconnect" /\ pc[p] = "done" /\ result[p] = Success
     /\ \A q \in Procs : (op[q].kind = "connect" /\ op[q].id = IdOf(p)) => q < p)
      => getStatus(IdOf(p)) = "disconnected"

\* what the registry holds for id: the entry's object, its fields and session
Entry(i) ==
  IF MapGet(clients, i) = 0 THEN [ref |-> 0, mc |-> NoClient, sess |-> "none"]
  ELSE [ref |-> MapGet(clients, i), mc |-> mc[MapGet(clients, i)], sess |-> sess[MapGet(clients, i)]]

\* call p is a connect that has registered its entry and has not settled
PendingConnect(p) ==
  op[p].kind = "connect" /\ pc[p] \in {"c_transport", "c_handshake"}

\* the continuation of call q can run now, where it does not wait for the
\* remote server
CanProceed(q) ==
  /\ pc[q] = "d_close" => ENABLED DisconnectClosed(q)
  /\ pc[q] = "c_close" => ENABLED ConnectDisconnected(q)
  /\ pc[q] = "c_register" => ENABLED ConnectResume(q)
  /\ pc[q] = "c_transport" => ENABLED ConnectTransport(q)
  /\ (pc[q] = "c_handshake" /\ sess[q] = "open") => ENABLED ConnectHandshakeOk(q)
  /\ (pc[q] = "cap_wait" /\ sess[held[q]] = "open") => ENABLED CapabilityOk(q)

C27_ErrorIffMessage ==
  \A i \in Ids :
    MapGet(clients, i) # 0 =>
      /\ mc[MapGet(clients, i)].status \in {"connecting", "connected", "error"}
      /\ mc[MapGet(clients, i)].error # "none" <=> mc[MapGet(clients, i)].status = "error"

\* a connect of an id whose entry held an error message has succeeded: the
\* id's entry is the new object, connected and without a message
C27_Witness ==
  \E p, q \in Procs :
    /\ p < q /\ op[p].kind = "connect" /\ op[q].kind = "connect" /\ op[p].id = op[q].id
    /\ mc[p].status = "error" /\ mc[p].error # "none"
    /\ MapGet(clients, op[q].id) = q
    /\ mc[q].status = "connected" /\ mc[q].error = "none"

\* C28: every record of the tool-call trace carries as serverName the
\* display name under which its tool was aggregated and declared (the
\* `[serverName]` of the declaration of that tool), also when a server is
\* disconnected while the turn runs.
C28_TraceCarriesDisplayName ==
  \A i \in 1..Len(turn.toolCallsInfo) :
    \E k \in 1..Len(turn.declarations) :
      turn.declarations[k].description =
        "[" \o turn.toolCallsInfo[i].serverName \o "] " \o turn.toolCallsInfo[i].toolName

\* the registry holds an entry for id whose session is open
LiveSession(i) == MapGet(clients, i) # 0 /\ sess[MapGet(clients, i)] = "open"

\* a disconnect of id has been requested and has not settled
Releasing(i) ==
  \E q \in Procs : op[q].kind = "disconnect" /\ op[q].id = i /\ pc[q] # "done"

\* C29: when removeServer(id) has removed a server that was listed as
\* connected, the registry holds no live session for id, or at least a
\* disconnect of id is under way.
C29_RemoveReleasesSession ==
  [][\A id \in Ids :
       (/\ Listed(ui.servers, id)
        /\ Find(ui.servers, id).status = "connected"
        /\ removeServer(id)) => (LiveSession(id)' => Releasing(id)')
  ]_vars

\* the ids stored under `mcp-connected-servers` and the ids of the configs
\* stored under `mcp-servers`
StoredConnected ==
  IF ui.items.connected = NoItem THEN {}
  ELSE {ParseIds(ui.items.connected)[k] : k \in 1..Len(ui.items.connected.items)}
StoredConfigured ==
  IF ui.items.servers = NoItem THEN {}
  ELSE {ParseConfigs(ui.items.servers)[k].id : k \in 1..Len(ui.items.servers.items)}

\* the connect calls for id that have settled
ConnectsOf(i) == {p \in Procs : op[p].kind = "connect" /\ op[p].id = i /\ pc[p] = "done"}
\* the last connect for id succeeded and no disconnect of id succeeded after it
StillConnected(i) ==
  /\ ConnectsOf(i) # {}
  /\ LET last == CHOOSE p \in ConnectsOf(i) : \A q \in ConnectsOf(i) : q <= p
     IN /\ result[last] = Success
        /\ ~\E q \in Procs : /\ q > last /\ op[q].kind = "disconnect" /\ op[q].id = i
                             /\ pc[q] = "done" /\ result[q] = Success

\* C30: after any sequence of provider operations every id stored under
\* `mcp-connected-servers` is the id of a config stored under `mcp-servers`
\* and of a server whose last connect succeeded and which was not
\* disconnected since.
C30_RememberedAreConfiguredAndConnected ==
  \A i \in StoredConnected : i \in StoredConfigured /\ StillConnected(i)
====
